---- MODULE Spec2Model ----
(***************************************************************************)
(* CostcoPriceApp: the sale-post scraper (costcowest_scraper.py) and the   *)
(* snapshot differ (price_diff_notifier.py).                               *)
(*                                                                         *)
(* Text is modelled as sequences of one-character strings, so that the     *)
(* regular expressions, str.lower, str.strip and float() are computed on   *)
(* the characters as the Python code computes them.  Floats are modelled   *)
(* as integers in hundredths (prices) or tenths (percentages): every price *)
(* the scanner produces has at most two fraction digits (PRICE_RE).        *)
(***************************************************************************)
EXTENDS Integers, Sequences, FiniteSets, TLC

VARIABLES
    pc,          \* position of the running command's main()
    urls,        \* main: the URL list of the scraper run
    url_i,       \* main: index of the URL being scraped
    attempt,     \* fetch: the attempt number of the current request loop
    slept,       \* fetch: the delays slept so far for this URL, in tenths of a second
    doc,         \* scrape_one: the fetched document (a sequence of content scopes)
    scope_i,     \* extract_items_from_post: index of the scope being scanned
    text_i,      \* extract_items_from_post: index of the next text node of the scope
    items,       \* extract_items_from_post: the records collected so far
    seen_pairs,  \* extract_items_from_post: the dedup set of the scan
    all_items,   \* main: the accumulated output collection
    returned,    \* per URL handled so far: what scrape_one gave back (items or an error)
    files,       \* the file system: path -> [exists, rows]
    old_data,    \* differ main: load_csv(old_path), in dict insertion order
    new_data,    \* differ main: load_csv(new_path), in dict insertion order
    drops,       \* differ main: the list compare returned
    summary,     \* summarize_csv: the statistics it printed
    out,         \* the running (or last) command: [op, msgs, raised, wrote, missing]
    price_in,   \* the string handed to a price parser
    parsed       \* the parser applied to price_in and what it returned

\* the locals of the commands that only read snapshots
reader_vars == <<old_data, new_data, drops, summary>>

\* the locals of the scraper
scraper_vars == <<urls, url_i, attempt, slept, doc, scope_i, text_i, items, seen_pairs,
                  all_items, returned>>

\* the argument and the result of a price parser called on its own
parse_vars == <<price_in, parsed>>

vars == <<pc, scraper_vars, files, reader_vars, out, parse_vars>>

-----------------------------------------------------------------------------
(* Characters and strings                                                   *)

Digits == <<"0", "1", "2", "3", "4", "5", "6", "7", "8", "9">>

UpperLetters == <<"A", "B", "C", "D", "E", "F", "G", "H", "I", "J", "K", "L", "M",
                  "N", "O", "P", "Q", "R", "S", "T", "U", "V", "W", "X", "Y", "Z">>

LowerLetters == <<"a", "b", "c", "d", "e", "f", "g", "h", "i", "j", "k", "l", "m",
                  "n", "o", "p", "q", "r", "s", "t", "u", "v", "w", "x", "y", "z">>

\* str.isdigit on one character
IsDigit(c) == \E i \in 1..10 : Digits[i] = c

\* int() of one digit character
DigitVal(c) == (CHOOSE i \in 1..10 : Digits[i] = c) - 1

\* the regular expression class \s, and the characters str.strip removes
IsSpace(c) == c \in {" ", "\t", "\n"}

\* str.lower on one character
LowerChar(c) ==
    IF \E i \in 1..26 : UpperLetters[i] = c
    THEN LowerLetters[CHOOSE i \in 1..26 : UpperLetters[i] = c]
    ELSE c

\* str.lower
Lower(s) == [i \in 1..Len(s) |-> LowerChar(s[i])]

\* s[i:] for a 1-based i
From(s, i) == SubSeq(s, i, Len(s))

RECURSIVE LStrip(_)
LStrip(s) == IF s # <<>> /\ IsSpace(s[1]) THEN LStrip(Tail(s)) ELSE s

RECURSIVE RStrip(_)
RStrip(s) ==
    IF s # <<>> /\ IsSpace(s[Len(s)]) THEN RStrip(SubSeq(s, 1, Len(s) - 1)) ELSE s

\* str.strip
Strip(s) == RStrip(LStrip(s))

\* re.sub(r"\s+", " ", t): every run of whitespace becomes one space
RECURSIVE CollapseSpaces(_)
CollapseSpaces(s) ==
    IF s = <<>> THEN <<>>
    ELSE IF IsSpace(s[1])
         THEN <<" ">> \o CollapseSpaces(LStrip(s))
         ELSE <<s[1]>> \o CollapseSpaces(Tail(s))

clean_text(t) == Strip(CollapseSpaces(t))

\* s[-n:] for n > 0
LastChars(s, n) == IF Len(s) <= n THEN s ELSE SubSeq(s, Len(s) - n + 1, Len(s))

\* s[:n]
FirstChars(s, n) == IF Len(s) <= n THEN s ELSE SubSeq(s, 1, n)

\* The first index j >= i, j - i <= max, with s[j] not satisfying the class
\* (a greedy bounded repetition of a one-character class, started at i).
RECURSIVE SkipSpaces(_, _)
SkipSpaces(s, i) == IF i <= Len(s) /\ IsSpace(s[i]) THEN SkipSpaces(s, i + 1) ELSE i

RECURSIVE SkipDigits(_, _, _)
SkipDigits(s, i, max) ==
    IF max > 0 /\ i <= Len(s) /\ IsDigit(s[i]) THEN SkipDigits(s, i + 1, max - 1) ELSE i

RECURSIVE SkipCommaDigits(_, _, _)
SkipCommaDigits(s, i, max) ==
    IF max > 0 /\ i <= Len(s) /\ (IsDigit(s[i]) \/ s[i] = ",")
    THEN SkipCommaDigits(s, i + 1, max - 1)
    ELSE i

\* whether the literal lit occurs in s at index i (case-insensitively when ci)
MatchLit(s, i, lit, ci) ==
    /\ i + Len(lit) - 1 <= Len(s)
    /\ \A k \in 1..Len(lit) :
          IF ci THEN LowerChar(s[i + k - 1]) = LowerChar(lit[k])
          ELSE s[i + k - 1] = lit[k]

\* (?:\.\d{2})? started at i: the index after it
OptFraction(s, i) ==
    IF /\ i + 2 <= Len(s)
       /\ s[i] = "."
       /\ IsDigit(s[i + 1])
       /\ IsDigit(s[i + 2])
    THEN i + 3
    ELSE i

-----------------------------------------------------------------------------
(* PRICE_RE and the instant-savings pattern                                 *)

\* (?:\$|CAD\s*\$?)\s* started at i: the index after it, 0 when it does not match
PricePrefixEnd(s, i) ==
    IF i > Len(s) THEN 0
    ELSE IF s[i] = "$" THEN SkipSpaces(s, i + 1)
    ELSE IF MatchLit(s, i, <<"C", "A", "D">>, FALSE)
         THEN LET j == SkipSpaces(s, i + 3)
                  k == IF j <= Len(s) /\ s[j] = "$" THEN j + 1 ELSE j
              IN  SkipSpaces(s, k)
    ELSE 0

\* PRICE_RE.match at index i: the index after the match, 0 when there is none.
\* Every part after the first digit is optional, so the greedy match is the match.
PriceMatchEnd(s, i) ==
    LET p == PricePrefixEnd(s, i)
    IN  IF p = 0 \/ p > Len(s) \/ ~IsDigit(s[p]) THEN 0
        ELSE OptFraction(s, SkipCommaDigits(s, SkipDigits(s, p, 3), 3))

\* PRICE_RE.findall(s), scanning from index i
RECURSIVE FindAllPricesFrom(_, _)
FindAllPricesFrom(s, i) ==
    IF i > Len(s) THEN <<>>
    ELSE LET e == PriceMatchEnd(s, i)
         IN  IF e > 0
             THEN <<SubSeq(s, i, e - 1)>> \o FindAllPricesFrom(s, e)
             ELSE FindAllPricesFrom(s, i + 1)

FindAllPrices(s) == FindAllPricesFrom(s, 1)

\* the start of the leftmost PRICE_RE match in s, 0 when there is none
FirstPriceStart(s) ==
    IF \E i \in 1..Len(s) : PriceMatchEnd(s, i) > 0
    THEN CHOOSE i \in 1..Len(s) :
            /\ PriceMatchEnd(s, i) > 0
            /\ \A j \in 1..(i - 1) : PriceMatchEnd(s, j) = 0
    ELSE 0

\* PRICE_RE.search(s) is not None
PriceSearch(s) == FirstPriceStart(s) > 0

\* \(\$(\d+(?:\.\d{2})?)\s+INSTANT\s+SAVINGS matched at i (re.I): group(1), which
\* holds at least one digit, or the empty string when there is no match at i
InstantMatchAt(s, i) ==
    IF ~(i + 2 <= Len(s) /\ s[i] = "(" /\ s[i + 1] = "$" /\ IsDigit(s[i + 2]))
    THEN <<>>
    ELSE LET d  == SkipDigits(s, i + 2, Len(s))
             g  == OptFraction(s, d)
             w1 == SkipSpaces(s, g)
             l1 == <<"I", "N", "S", "T", "A", "N", "T">>
             w2 == SkipSpaces(s, w1 + 7)
             l2 == <<"S", "A", "V", "I", "N", "G", "S">>
         IN  IF /\ w1 > g
                /\ MatchLit(s, w1, l1, TRUE)
                /\ w2 > w1 + 7
                /\ MatchLit(s, w2, l2, TRUE)
             THEN SubSeq(s, i + 2, g - 1)
             ELSE <<>>

\* instant_match.group(1) if instant_match else ""
InstantSavings(s) ==
    IF \E i \in 1..Len(s) : InstantMatchAt(s, i) # <<>>
    THEN InstantMatchAt(s, CHOOSE i \in 1..Len(s) :
            /\ InstantMatchAt(s, i) # <<>>
            /\ \A j \in 1..(i - 1) : InstantMatchAt(s, j) = <<>>)
    ELSE <<>>

-----------------------------------------------------------------------------
(* Numbers: float(), round() and str() of a float                           *)

\* "no value": what the parsers return for None.  Parsed prices are never negative
\* (a minus sign is never kept), so -1 stands for None.
NoValue == -1

\* Python truthiness of a parsed price: neither None nor 0.0
Truthy(x) == x # NoValue /\ x # 0

RECURSIVE DigitsToInt(_)
DigitsToInt(d) ==
    IF d = <<>> THEN 0 ELSE 10 * DigitsToInt(SubSeq(d, 1, Len(d) - 1)) + DigitVal(d[Len(d)])

\* the number of "." in d
RECURSIVE CountDots(_)
CountDots(d) ==
    IF d = <<>> THEN 0 ELSE (IF d[1] = "." THEN 1 ELSE 0) + CountDots(Tail(d))

\* float(d) for a string d of digits and "." only, in hundredths; NoValue where
\* float raises ValueError (no digit, or more than one ".").  Fraction digits past
\* the second are not representable in hundredths: no price of the model has any.
ParseFloat(d) ==
    IF CountDots(d) > 1 \/ ~(\E i \in 1..Len(d) : IsDigit(d[i])) THEN NoValue
    ELSE IF CountDots(d) = 0 THEN 100 * DigitsToInt(d)
    ELSE LET p    == CHOOSE i \in 1..Len(d) : d[i] = "."
             frac == SubSeq(d, p + 1, Len(d))
             f2   == FirstChars(frac \o <<"0", "0">>, 2)
         IN  100 * DigitsToInt(SubSeq(d, 1, p - 1)) + DigitsToInt(f2)

\* ''.join(ch for ch in s if (ch.isdigit() or ch == '.'))
DigitsAndDots(s) == SelectSeq(s, LAMBDA c : IsDigit(c) \/ c = ".")

\* re.search(r"\d+\.\d{2}", s) started at i: the index after the match, 0 when none.
\* \d+ is greedy and must be followed by ".", so it takes the whole run of digits.
DecimalMatchEnd(s, i) ==
    IF i > Len(s) \/ ~IsDigit(s[i]) THEN 0
    ELSE LET d == SkipDigits(s, i, Len(s))
         IN  IF OptFraction(s, d) > d THEN d + 3 ELSE 0

\* the decimal to nearest integer of n / d (n >= 0, d > 0), ties to even: round()
RoundDiv(n, d) ==
    LET q == n \div d
        r == n % d
    IN  IF 2 * r > d \/ (2 * r = d /\ q % 2 = 1) THEN q + 1 ELSE q

RECURSIVE IntToDigits(_)
IntToDigits(n) ==
    IF n < 10 THEN <<Digits[n + 1]>> ELSE IntToDigits(n \div 10) \o <<Digits[(n % 10) + 1]>>

\* str(x) of a float x given as n / 10^places (places is 1 or 2): the shortest
\* decimal, with at least one fraction digit
FormatFloat(n, places) ==
    LET unit == IF places = 2 THEN 100 ELSE 10
        ip   == IntToDigits(n \div unit)
        fr   == n % unit
    IN  IF places = 1 THEN ip \o <<".">> \o IntToDigits(fr)
        ELSE IF fr % 10 = 0 THEN ip \o <<".">> \o IntToDigits(fr \div 10)
        ELSE ip \o <<".", Digits[(fr \div 10) + 1], Digits[(fr % 10) + 1]>>

-----------------------------------------------------------------------------
(* The three price parsers                                                  *)

\* save_csv.to_float: the first \d+\.\d{2} substring of val, as a float
save_to_float(val) ==
    IF val = <<>> THEN NoValue
    ELSE IF \E i \in 1..Len(val) : DecimalMatchEnd(val, i) > 0
         THEN LET i == CHOOSE k \in 1..Len(val) :
                          /\ DecimalMatchEnd(val, k) > 0
                          /\ \A j \in 1..(k - 1) : DecimalMatchEnd(val, j) = 0
              IN  ParseFloat(SubSeq(val, i, DecimalMatchEnd(val, i) - 1))
         ELSE NoValue

\* recompute_csv.to_float (summarize_csv.to_float is the same code): every digit
\* and "." of v, joined, as a float
recompute_to_float(v) == ParseFloat(DigitsAndDots(v))

\* parse_price of the differ
parse_price(price_str) ==
    IF price_str = <<>> THEN NoValue ELSE ParseFloat(DigitsAndDots(price_str))

-----------------------------------------------------------------------------
(* Documents                                                                *)

\* A text node of a fetched document, with what the scan reads around it:
\*   text  the string itself                      (t)
\*   pre   the parent's strings before it         (part of t.parent.get_text(" "))
\*   img   whether an <img> precedes the parent   (parent.find_previous("img"))
\*   alt   that image's alt attribute, "" if none (img.get("alt"))
\*   prev  the parent's previous sibling: [kind |-> "tag" | "str" | "none", text]
W_Ham  == <<"H", "a", "m">>
W_HAM  == <<"H", "A", "M">>
W_Tea  == <<"T", "e", "a">>
W_Sale == <<"S", "a", "l", "e">>
P_0    == <<"$", "0", ".", "0", "0">>
P_5    == <<"$", "5", ".", "0", "0">>
P_15   == <<"$", "1", "5", ".", "0", "0">>
P_20   == <<"$", "2", "0", ".", "0", "0">>
T_Instant5 ==
    <<"(", "$", "5", ".", "0", "0", " ", "I", "N", "S", "T", "A", "N", "T", " ",
      "S", "A", "V", "I", "N", "G", "S", ")">>

NoPrev == [kind |-> "none", text |-> <<>>]

\* <img alt="Ham"> ... <p>($5.00 INSTANT SAVINGS) $15.00</p>
NodeAlt ==
    [text |-> T_Instant5 \o <<" ">> \o P_15, pre |-> <<>>, img |-> TRUE, alt |-> W_Ham,
     prev |-> NoPrev]

\* <p>HAM $15.00</p>
NodeText ==
    [text |-> W_HAM \o <<" ">> \o P_15, pre |-> <<>>, img |-> FALSE, alt |-> <<>>,
     prev |-> NoPrev]

\* <img alt="  "> ... <p>$15.00</p>, nothing before the parent
NodeBlankAlt ==
    [text |-> P_15, pre |-> <<>>, img |-> TRUE, alt |-> <<" ", " ">>, prev |-> NoPrev]

\* <h3>Tea</h3><p>Sale: $15.00</p>
NodeColon ==
    [text |-> W_Sale \o <<":", " ">> \o P_15, pre |-> <<>>, img |-> FALSE, alt |-> <<>>,
     prev |-> [kind |-> "tag", text |-> W_Tea]]

\* " Ham "<p><b>x</b>$20.00</p>: the price follows a sibling string
NodeSibling ==
    [text |-> <<"\n", " ">> \o P_20 \o <<"\n">>, pre |-> <<>>, img |-> FALSE, alt |-> <<>>,
     prev |-> [kind |-> "str", text |-> <<" ">> \o W_Ham \o <<" ">>]]

\* <p>Sale</p>: no price in it
NodeNoPrice ==
    [text |-> W_Sale, pre |-> <<>>, img |-> FALSE, alt |-> <<>>, prev |-> NoPrev]

\* A document holds its text nodes by name.
Node ==
    [alt |-> NodeAlt, text |-> NodeText, blank |-> NodeBlankAlt, colon |-> NodeColon,
     sibling |-> NodeSibling, noprice |-> NodeNoPrice]

ScanNodes == DOMAIN Node

BatchNodes == {"alt", "text", "sibling"}

\* the most text nodes in one document
MaxTexts == 3

\* the most URLs of one run
MaxUrls == 2

SeqsUpTo(S, n) == UNION {[1..k -> S] : k \in 0..n}

\* the nodes f[1..k] as content scopes, a new scope starting after each index in cuts
RECURSIVE SplitAt(_, _, _)
SplitAt(f, cuts, k) ==
    IF k = 0 THEN << <<>> >>
    ELSE LET before == SplitAt(f, cuts, k - 1)
         IN  IF (k - 1) \in cuts
             THEN Append(before, <<f[k]>>)
             ELSE [before EXCEPT ![Len(before)] = Append(@, f[k])]

\* content_scopes of every document with at most n text nodes taken from N:
\* a non-empty list of scopes (soup.select(...) or [soup.body or soup])
DocsOver(N, n) ==
    UNION {{SplitAt(f, c, Len(f)) : c \in SUBSET (1..(Len(f) - 1))} : f \in SeqsUpTo(N, n)}

\* the documents a fetch may return
ScanDocs == DocsOver(ScanNodes, MaxTexts)

\* text nodes per document when several documents are scraped in one run
MaxBatchTexts == 2

BatchDocs == DocsOver(BatchNodes, MaxBatchTexts)

\* post_title and post_date of extract_post_meta, the same for every document
PostTitle == "Weekly Sales"
PostDate == ""

\* t.parent.get_text(" ")
ParentText(t) == IF t.pre = <<>> THEN t.text ELSE t.pre \o <<" ">> \o t.text

\* scope.find_all(string=PRICE_RE)
\* (the pattern's verdict on each text node of the model is computed once)
MatchesPrice == [n \in DOMAIN Node |-> PriceSearch(Node[n].text)]

FindAllTexts(scope) == SelectSeq(scope, LAMBDA n : MatchesPrice[n])

-----------------------------------------------------------------------------
(* Product name resolver                                                    *)

max_chars == 180

\* The characters re.split(r"[...]", left) splits on, among the characters the
\* documents of the model use.
IsSeparator(c) == c \in {"-", "|", ":", "\n"}

\* re.split(r"[...]", left)[-1]: what follows the last separator
LastChunk(left) ==
    IF \E i \in 1..Len(left) : IsSeparator(left[i])
    THEN From(left, 1 + CHOOSE i \in 1..Len(left) :
            /\ IsSeparator(left[i])
            /\ \A j \in (i + 1)..Len(left) : ~IsSeparator(left[j]))
    ELSE left

\* text.split(mask)[0].strip() of the text with every price masked: what precedes
\* the first price
LeftOfFirstPrice(text) ==
    Strip(IF FirstPriceStart(text) = 0 THEN text
          ELSE SubSeq(text, 1, FirstPriceStart(text) - 1))

\* the sibling fallback of nearest_text_before
SiblingText(node) ==
    IF node.prev.kind = "tag" THEN FirstChars(clean_text(node.prev.text), max_chars)
    ELSE IF node.prev.kind = "str" /\ node.prev.text # <<>>
         THEN FirstChars(clean_text(node.prev.text), max_chars)
    ELSE <<>>

nearest_text_before(node) ==
    LET left == LeftOfFirstPrice(clean_text(ParentText(node)))
    IN  IF left # <<>>
        THEN LastChars(clean_text(LastChunk(left)), max_chars)
        ELSE SiblingText(node)

\* the name extract_items_from_post resolves for the text node t
ResolveName(t) ==
    LET name == IF t.img /\ t.alt # <<>> THEN clean_text(t.alt) ELSE <<>>
    IN  IF name = <<>> THEN nearest_text_before(t) ELSE name

\* all_prices[-1] if all_prices else ""
SalePrice(txt) ==
    LET all_prices == FindAllPrices(txt)
    IN  IF all_prices # <<>> THEN all_prices[Len(all_prices)] ELSE <<>>

\* what one iteration of "for t in texts" reads from the text node t, up to the
\* dedup: instant_savings, sale_price and name
Occurrence(t) ==
    LET txt == clean_text(t.text)
    IN  [instant_savings |-> InstantSavings(txt),
         sale_price      |-> SalePrice(txt),
         name            |-> ResolveName(t)]

\* (computed once for each text node of the model)
Occurrences == [n \in DOMAIN Node |-> Occurrence(Node[n])]

\* a guard that forgets "not name"
SkipSeenOnly(name, key, seen) == key \in seen

\* if not name or key in seen_pairs: continue
SkipOccurrence(name, key, seen) == name = <<>> \/ key \in seen

\* a key that tells names apart by their case
PairKeyExact(name, sale_price) == <<name, sale_price>>

\* the key of the intra-document dedup
PairKey(name, sale_price) == <<Lower(name), sale_price>>

\* the record extract_items_from_post appends
MakeItem(name, sale_price, instant_savings, source_url) ==
    [post_title      |-> PostTitle,
     post_date       |-> PostDate,
     product_name    |-> name,
     sale_price      |-> sale_price,
     regular_price   |-> <<>>,
     instant_savings |-> instant_savings,
     source_url      |-> source_url]

-----------------------------------------------------------------------------
(* Snapshot files: save_csv and recompute_csv                               *)

Paths == {"sales_old.csv", "sales_new.csv"}

\* the most rows of one snapshot file
MaxRows == 2

NoFile == [exists |-> FALSE, rows |-> <<>>]

\* datetime.datetime.now().isoformat(timespec="seconds")
ScrapedAt == "now"

\* a save that leaves discount_percent empty when the discount rounds to zero
save_row_blank_zero(r) ==
    LET sale    == save_to_float(r.sale_price)
        instant == save_to_float(r.instant_savings)
        regular == sale + instant
        both    == Truthy(sale) /\ Truthy(instant)
    IN  [post_title           |-> r.post_title,
         post_date            |-> r.post_date,
         product_name         |-> r.product_name,
         sale_price           |-> r.sale_price,
         regular_price        |-> r.regular_price,
         instant_savings      |-> r.instant_savings,
         approx_regular_price |-> IF both THEN FormatFloat(regular, 2) ELSE <<>>,
         discount_percent     |-> IF both /\ RoundDiv(1000 * instant, regular) # 0
                                  THEN FormatFloat(RoundDiv(1000 * instant, regular), 1)
                                  ELSE <<>>,
         source_url           |-> r.source_url,
         scraped_at           |-> ScrapedAt]

\* one iteration of save_csv's loop: the record with its derived fields, as the
\* csv module writes it (a float is written by str())
save_row(r) ==
    LET sale    == save_to_float(r.sale_price)
        instant == save_to_float(r.instant_savings)
        regular == sale + instant
        both    == Truthy(sale) /\ Truthy(instant)
    IN  [post_title           |-> r.post_title,
         post_date            |-> r.post_date,
         product_name         |-> r.product_name,
         sale_price           |-> r.sale_price,
         regular_price        |-> r.regular_price,
         instant_savings      |-> r.instant_savings,
         approx_regular_price |-> IF both THEN FormatFloat(regular, 2) ELSE <<>>,
         discount_percent     |-> IF both
                                  THEN FormatFloat(RoundDiv(1000 * instant, regular), 1)
                                  ELSE <<>>,
         source_url           |-> r.source_url,
         scraped_at           |-> ScrapedAt]

\* save_csv(rows, out_path): the file system after it (the file is opened for append)
save_csv(fs, rows, out_path) ==
    [fs EXCEPT ![out_path] =
        [exists |-> TRUE, rows |-> @.rows \o [i \in 1..Len(rows) |-> save_row(rows[i])]]]

\* a recomputation that starts from the approx_regular_price already in the row
recompute_row_from_derived(row) ==
    LET sale    == recompute_to_float(row.sale_price)
        instant == recompute_to_float(row.instant_savings)
        prior   == recompute_to_float(row.approx_regular_price)
        regular == (IF Truthy(prior) THEN prior ELSE sale) + instant
        both    == Truthy(sale) /\ Truthy(instant)
    IN  [row EXCEPT
            !.approx_regular_price = IF both THEN FormatFloat(regular, 2) ELSE <<>>,
            !.discount_percent     = IF both
                                     THEN FormatFloat(RoundDiv(1000 * instant, regular), 1)
                                     ELSE <<>>]

\* one iteration of recompute_csv's loop over the rows of the file
recompute_row(row) ==
    LET sale    == recompute_to_float(row.sale_price)
        instant == recompute_to_float(row.instant_savings)
        regular == sale + instant
        both    == Truthy(sale) /\ Truthy(instant)
    IN  [row EXCEPT
            !.approx_regular_price = IF both THEN FormatFloat(regular, 2) ELSE <<>>,
            !.discount_percent     = IF both
                                     THEN FormatFloat(RoundDiv(1000 * instant, regular), 1)
                                     ELSE <<>>]

\* the rows recompute_csv writes back for the rows it read
recompute_rows(rows) == [i \in 1..Len(rows) |-> recompute_row(rows[i])]

-----------------------------------------------------------------------------
(* Commands                                                                 *)

\* What a command did: the messages it printed, the exception that ended it (""
\* if none), the files it wrote, and whether an input file it was given is missing.
NoCmd == [op |-> "none", msgs |-> {}, raised |-> "", wrote |-> {}, missing |-> FALSE]

Cmd(op, msgs, raised, wrote) ==
    [op |-> op, msgs |-> msgs, raised |-> raised, wrote |-> wrote, missing |-> FALSE]

CmdMissing(op, msgs, raised, wrote) ==
    [op |-> op, msgs |-> msgs, raised |-> raised, wrote |-> wrote, missing |-> TRUE]

\* the locals of a scraper run before its loop
ScraperLocalsFresh ==
    /\ url_i = 1 /\ attempt = 0 /\ slept = <<>> /\ doc = <<>>
    /\ scope_i = 1 /\ text_i = 1 /\ items = <<>> /\ seen_pairs = {}
    /\ all_items = <<>> /\ returned = <<>>

\* no statistics printed
NoSummary == [count |-> 0]

\* the locals of the differ and of summarize_csv before they run
ReaderLocalsFresh ==
    old_data = <<>> /\ new_data = <<>> /\ drops = <<>> /\ summary = NoSummary

InitCommon ==
    /\ ScraperLocalsFresh
    /\ files = [p \in Paths |-> NoFile]
    /\ ReaderLocalsFresh
    /\ out = NoCmd

\* no parser has been called on its own
NoParse == [by |-> "none", value |-> NoValue]

ParserIdle == price_in = <<>> /\ parsed = NoParse



\* urls of main: the i-th line of the URL list
UrlOf(i) == <<"u", Digits[i + 1]>>

-----------------------------------------------------------------------------
(* The scraper: main, scrape_one, fetch, extract_items_from_post            *)

\* range(3) of fetch
FetchAttempts == 3

\* 1.5 seconds, in tenths: time.sleep(1.5 * (attempt + 1))
BackoffTenths == 15

\* a delay that does not grow
BackoffFlat(failed) == BackoffTenths

\* the delay after the failed attempt number `failed` (0, 1): 1.5 * (attempt + 1)
Backoff(failed) == BackoffTenths * (failed + 1)

\* what the except branch of main's loop leaves for the URL
UrlFailed(u) == [url |-> u, ok |-> FALSE, items |-> <<>>]

\* what the try branch of main's loop leaves for the URL
UrlParsed(u, its) == [url |-> u, ok |-> TRUE, items |-> its]

\* a loop that keeps the records of the last document only
ReplaceAllItems(acc, its) == its

\* all_items after the try branch: all_items.extend(items)
ExtendAllItems(acc, its) == acc \o its

\* seen_pairs = set() at the start of extract_items_from_post
FreshSeenPairs == {}

\* fetch has returned or raised: its locals are gone
FetchLeft ==
    /\ attempt' = 0
    /\ slept' = <<>>

\* scrape_one has returned or raised: its locals are gone
ScrapeOneLeft ==
    /\ doc' = <<>>
    /\ scope_i' = 1
    /\ text_i' = 1
    /\ items' = <<>>
    /\ seen_pairs' = {}

\* main up to its loop: no URL means exit(1)
MainStart ==
    /\ pc = "main"
    /\ IF urls = <<>>
       THEN /\ out' = Cmd("scrape", {"No URLs provided."}, "SystemExit", {})
            /\ pc' = "idle"
       ELSE /\ out' = Cmd("scrape", {}, "", {})
            /\ pc' = "next_url"
    /\ UNCHANGED parse_vars
    /\ UNCHANGED <<urls, url_i, attempt, slept, doc, scope_i, text_i, items, seen_pairs,
                   all_items, returned, files, reader_vars>>

\* for u in urls: scrape_one(u) calls fetch(u)
NextUrl ==
    /\ pc = "next_url"
    /\ url_i <= Len(urls)
    /\ attempt' = 0
    /\ slept' = <<>>
    /\ pc' = "fetch"
    /\ UNCHANGED parse_vars
    /\ UNCHANGED <<urls, url_i, doc, scope_i, text_i, items, seen_pairs, all_items,
                   returned, files, reader_vars, out>>

\* fetch: the request succeeds and r.text is returned; scrape_one parses it and
\* extract_items_from_post starts on its content scopes
FetchOk(D) ==
    /\ pc = "fetch"
    /\ \E d \in D : doc' = d
    /\ items' = <<>>
    /\ seen_pairs' = FreshSeenPairs
    /\ scope_i' = 1
    /\ text_i' = 1
    /\ pc' = "scan"
    /\ FetchLeft
    /\ UNCHANGED parse_vars
    /\ UNCHANGED <<urls, url_i, all_items, returned, files, reader_vars, out>>

\* fetch: the request fails on an attempt before the last; sleep and try again
FetchRetry ==
    /\ pc = "fetch"
    /\ attempt < FetchAttempts - 1
    /\ slept' = Append(slept, Backoff(attempt))
    /\ attempt' = attempt + 1
    /\ UNCHANGED parse_vars
    /\ UNCHANGED <<pc, urls, url_i, doc, scope_i, text_i, items, seen_pairs, all_items,
                   returned, files, reader_vars, out>>

\* fetch: the request fails on the last attempt; the error reaches main's except
FetchRaise ==
    /\ pc = "fetch"
    /\ attempt = FetchAttempts - 1
    /\ returned' = Append(returned, UrlFailed(urls[url_i]))
    /\ url_i' = url_i + 1
    /\ pc' = "next_url"
    /\ FetchLeft
    /\ ScrapeOneLeft
    /\ UNCHANGED parse_vars
    /\ UNCHANGED <<urls, all_items, files, reader_vars, out>>

\* one iteration of "for t in texts"
ScanText ==
    /\ pc = "scan"
    /\ scope_i <= Len(doc)
    /\ text_i <= Len(FindAllTexts(doc[scope_i]))
    /\ LET t   == Occurrences[FindAllTexts(doc[scope_i])[text_i]]
           key == PairKey(t.name, t.sale_price)
       IN  IF t.sale_price = <<>> \/ SkipOccurrence(t.name, key, seen_pairs)
           THEN UNCHANGED <<items, seen_pairs>>
           ELSE /\ seen_pairs' = seen_pairs \cup {key}
                /\ items' = Append(items,
                       MakeItem(t.name, t.sale_price, t.instant_savings, urls[url_i]))
    /\ text_i' = text_i + 1
    /\ UNCHANGED parse_vars
    /\ UNCHANGED <<pc, urls, url_i, attempt, slept, doc, scope_i, all_items, returned,
                   files, reader_vars, out>>

\* "for scope in content_scopes": the texts of the scope are exhausted
ScanNextScope ==
    /\ pc = "scan"
    /\ scope_i <= Len(doc)
    /\ text_i > Len(FindAllTexts(doc[scope_i]))
    /\ scope_i' = scope_i + 1
    /\ text_i' = 1
    /\ UNCHANGED parse_vars
    /\ UNCHANGED <<pc, urls, url_i, attempt, slept, doc, items, seen_pairs, all_items,
                   returned, files, reader_vars, out>>

\* extract_items_from_post returns; main extends all_items
ScanReturn ==
    /\ pc = "scan"
    /\ scope_i > Len(doc)
    /\ all_items' = ExtendAllItems(all_items, items)
    /\ returned' = Append(returned, UrlParsed(urls[url_i], items))
    /\ url_i' = url_i + 1
    /\ pc' = "next_url"
    /\ ScrapeOneLeft
    /\ UNCHANGED parse_vars
    /\ UNCHANGED <<urls, attempt, slept, files, reader_vars, out>>

\* an exception inside scrape_one after the fetch (parsing, scanning): main's except
ScrapeRaise ==
    /\ pc = "scan"
    /\ returned' = Append(returned, UrlFailed(urls[url_i]))
    /\ url_i' = url_i + 1
    /\ pc' = "next_url"
    /\ ScrapeOneLeft
    /\ UNCHANGED parse_vars
    /\ UNCHANGED <<urls, attempt, slept, all_items, files, reader_vars, out>>

\* the --watch argument and its file
NoWatch == [given |-> FALSE, exists |-> FALSE, lines |-> <<>>]

WatchInputs ==
    {NoWatch,
     [given |-> TRUE, exists |-> FALSE, lines |-> <<>>],
     [given |-> TRUE, exists |-> TRUE, lines |-> << <<" ">>, <<"H", "A", " ">> >>]}

load_watchlist(w) ==
    IF ~w.given \/ ~w.exists THEN <<>>
    ELSE SelectSeq([i \in 1..Len(w.lines) |-> Strip(w.lines[i])], LAMBDA l : l # <<>>)

\* w.lower() in name
IsSubstring(w, name) ==
    \E i \in 1..(Len(name) - Len(w) + 1) : SubSeq(name, i, i + Len(w) - 1) = w

filter_by_watchlist(its, watch) ==
    IF watch = <<>> THEN <<>>
    ELSE SelectSeq(its, LAMBDA it :
            \E k \in 1..Len(watch) : IsSubstring(Lower(watch[k]), Lower(it.product_name)))

\* the messages of main after save_csv
WatchMessages(its, w) ==
    LET watch == load_watchlist(w)
    IN  IF watch = <<>> THEN {}
        ELSE IF filter_by_watchlist(its, watch) # <<>> THEN {"WATCHLIST MATCHES"}
        ELSE {"(No watchlist matches this run.)"}

\* main after its loop, for the collection its
MainTail(its, out_path, w) ==
    IF its = <<>>
    THEN /\ out' = Cmd("scrape", {"No items found."}, "", {})
         /\ UNCHANGED files
    ELSE /\ files' = save_csv(files, its, out_path)
         /\ out' = IF w.given /\ ~w.exists
                   THEN CmdMissing("scrape", {"Saved"} \cup WatchMessages(its, w), "",
                                   {out_path})
                   ELSE Cmd("scrape", {"Saved"} \cup WatchMessages(its, w), "", {out_path})

\* main: the loop is over
Finish ==
    /\ pc = "next_url"
    /\ url_i > Len(urls)
    /\ \E out_path \in Paths, w \in WatchInputs : MainTail(all_items, out_path, w)
    /\ pc' = "idle"
    /\ UNCHANGED parse_vars
    /\ UNCHANGED <<urls, url_i, attempt, slept, doc, scope_i, text_i, items, seen_pairs,
                   all_items, returned, reader_vars>>

InitScrape(n) ==
    /\ InitCommon
    /\ ParserIdle
    /\ pc = "main"
    /\ \E k \in 0..n : urls = [i \in 1..k |-> UrlOf(i)]

\* one run of the scraper over one URL, the documents drawn from ScanNodes
InitScan == InitScrape(1)

ScrapeStep(D) ==
    \/ MainStart
    \/ NextUrl
    \/ FetchOk(D)
    \/ FetchRetry
    \/ FetchRaise
    \/ ScanText
    \/ ScanNextScope
    \/ ScanReturn
    \/ ScrapeRaise
    \/ Finish

NextScan == ScrapeStep(ScanDocs)

SpecScan == InitScan /\ [][NextScan]_vars

\* one run of the scraper over up to MaxUrls URLs, the documents drawn from BatchNodes
InitBatch == InitScrape(MaxUrls)

NextBatch == ScrapeStep(BatchDocs)

SpecBatch == InitBatch /\ [][NextBatch]_vars

-----------------------------------------------------------------------------
\* Properties of the scan of one document (checked under SpecScan and SpecBatch)

\* C14: while fetch runs it is on attempt 1, 2 or 3 and has slept 1.5 s after
\* the first failure and 3.0 s after the second; a failure of the first or
\* second attempt sleeps and goes to the next attempt, a success hands the body
\* to the caller with no further attempt, and the only other way out is the
\* error of the third attempt, raised to the caller after two sleeps, not three.
C14_FetchRetries ==
    [][pc = "fetch" =>
          /\ attempt \in 0..2
          /\ slept = [i \in 1..attempt |-> 15 * i]
          /\ pc' = "fetch" =>
                /\ attempt < 2
                /\ attempt' = attempt + 1
                /\ slept' = Append(slept, 15 * (attempt + 1))
          /\ pc' = "scan" =>
                /\ doc' # <<>>
                /\ url_i' = url_i
                /\ returned' = returned
          /\ pc' \notin {"fetch", "scan"} =>
                /\ attempt = 2
                /\ slept = <<15, 30>>
                /\ pc' = "next_url"
                /\ returned' = Append(returned, [url |-> urls[url_i], ok |-> FALSE,
                                                 items |-> <<>>])
                /\ all_items' = all_items]_vars

\* fetch is on its third attempt after two failures and two sleeps
C14_Witness ==
    /\ pc = "fetch"
    /\ attempt = 2
    /\ slept = <<15, 30>>

\* the text nodes of the first n content scopes, in scan order
RECURSIVE ScopesTexts(_, _)
ScopesTexts(d, n) ==
    IF n = 0 THEN <<>> ELSE ScopesTexts(d, n - 1) \o FindAllTexts(d[n])

\* the text nodes extract_items_from_post has been through so far
Scanned ==
    IF pc # "scan" THEN <<>>
    ELSE ScopesTexts(doc, scope_i - 1) \o
         (IF scope_i <= Len(doc)
          THEN SubSeq(FindAllTexts(doc[scope_i]), 1, text_i - 1)
          ELSE <<>>)

\* the (lowercased product_name, sale_price) pair of a record, of a text node
PairOf(it) == <<Lower(it.product_name), it.sale_price>>

NodePair(n) == <<Lower(Occurrences[n].name), Occurrences[n].sale_price>>

\* the text node has a price and a name
Recordable(n) == Occurrences[n].sale_price # <<>> /\ Occurrences[n].name # <<>>

\* the positions in Scanned of the first occurrence of each pair
FirstOccurrences ==
    {k \in 1..Len(Scanned) :
        /\ Recordable(Scanned[k])
        /\ \A j \in 1..(k - 1) :
              Recordable(Scanned[j]) => NodePair(Scanned[j]) # NodePair(Scanned[k])}

\* the i-th position of FirstOccurrences
NthFirst(i) ==
    CHOOSE k \in FirstOccurrences : Cardinality({j \in FirstOccurrences : j <= k}) = i

NoSharedPair(its) ==
    \A i, j \in 1..Len(its) : i # j => PairOf(its[i]) # PairOf(its[j])

\* C4: during and after the scan of a document no two of its records share a
\* (lowercased product_name, sale_price) pair; the records are, in scan order,
\* the first occurrence of each pair among the text nodes of this document
\* scanned so far, and seen_pairs holds the pairs of this document's records only.
C4_OneRecordPerPair ==
    /\ NoSharedPair(items)
    /\ \A u \in 1..Len(returned) : NoSharedPair(returned[u].items)
    /\ pc = "scan" =>
          /\ Len(items) = Cardinality(FirstOccurrences)
          /\ \A i \in 1..Len(items) :
                LET t == Occurrences[Scanned[NthFirst(i)]]
                IN  /\ items[i].product_name = t.name
                    /\ items[i].sale_price = t.sale_price
                    /\ items[i].instant_savings = t.instant_savings
                    /\ items[i].source_url = urls[url_i]
          /\ seen_pairs = {PairOf(items[i]) : i \in 1..Len(items)}

\* in the scan of the second document an occurrence was skipped as a repeat of a
\* pair, and a record was made for a pair the first document had as well
C4_Witness ==
    /\ pc = "scan"
    /\ Len(returned) = 1
    /\ Len(Scanned) > Len(items)
    /\ \E i \in 1..Len(items), j \in 1..Len(returned[1].items) :
          PairOf(items[i]) = PairOf(returned[1].items[j])

\* (computed once for each text node of the model)
\* the name from the image alt; the candidate of the preceding-text strategy;
\* the text of the preceding sibling
AltNames ==
    [n \in DOMAIN Node |->
        IF Node[n].img /\ Node[n].alt # <<>> THEN clean_text(Node[n].alt) ELSE <<>>]

PrecedingTexts ==
    [n \in DOMAIN Node |->
        LET left == LeftOfFirstPrice(clean_text(ParentText(Node[n])))
        IN  IF left = <<>> THEN <<>>
            ELSE LastChars(clean_text(LastChunk(left)), max_chars)]

SiblingTexts == [n \in DOMAIN Node |-> SiblingText(Node[n])]

\* C7: the name resolved for a scanned text node is empty only if the image alt,
\* the preceding-text strategy and the preceding-sibling strategy all give
\* nothing; when the first two give nothing and the sibling has text, the name is
\* the sibling's text.
C7_EmptyNameOnlyIfAllFail ==
    \A k \in 1..Len(Scanned) :
        LET n == Scanned[k]
        IN  /\ Occurrences[n].name = <<>> =>
                  (AltNames[n] = <<>> /\ PrecedingTexts[n] = <<>> /\ SiblingTexts[n] = <<>>)
            /\ (AltNames[n] = <<>> /\ PrecedingTexts[n] = <<>> /\ SiblingTexts[n] # <<>>)
                  => Occurrences[n].name = SiblingTexts[n]

AllNamed(its) == \A i \in 1..Len(its) : its[i].product_name # <<>>

\* C8: every record of the scan, of the documents scanned before and of the
\* collected output has a non-empty product_name, and no pair of seen_pairs has
\* an empty name: an occurrence whose name resolves to nothing is dropped.
C8_NamesNeverEmpty ==
    /\ AllNamed(items)
    /\ AllNamed(all_items)
    /\ \A u \in 1..Len(returned) : AllNamed(returned[u].items)
    /\ \A key \in seen_pairs : key[1] # <<>>

\* the scan has been through a priced text node whose image alt is only
\* whitespace and whose text fallbacks fail, and has made a record of another
C8_Witness ==
    /\ pc = "scan"
    /\ items # <<>>
    /\ \E k \in 1..Len(Scanned) :
          /\ Node[Scanned[k]].img
          /\ Node[Scanned[k]].alt # <<>>
          /\ Occurrences[Scanned[k]].sale_price # <<>>
          /\ Occurrences[Scanned[k]].name = <<>>

\* the records of the documents scraped without an error, in URL order
RECURSIVE ItemsOf(_)
ItemsOf(rs) ==
    IF rs = <<>> THEN <<>>
    ELSE ItemsOf(SubSeq(rs, 1, Len(rs) - 1)) \o
         (IF rs[Len(rs)].ok THEN rs[Len(rs)].items ELSE <<>>)

\* C9: a failing URL does not end the run: every URL before the current one has
\* its outcome, in URL order, the run ends without an exception only after the
\* last URL, and all_items is the records of the documents scraped without an
\* error, in URL order and each document's in the order its scan returned them.
C9_BatchSurvivesErrors ==
    /\ all_items = ItemsOf(returned)
    /\ \A u \in 1..Len(returned) : returned[u].url = urls[u]
    /\ pc \in {"next_url", "fetch", "scan"} => Len(returned) = url_i - 1
    /\ (pc = "idle" /\ urls # <<>>) => (Len(returned) = Len(urls) /\ out.raised = "")

\* the run is over and was saved: a URL failed and a later one gave records
C9_Witness ==
    /\ pc = "idle"
    /\ out.wrote # {}
    /\ \E u, v \in 1..Len(returned) :
          u < v /\ ~returned[u].ok /\ returned[v].ok /\ returned[v].items # <<>>

-----------------------------------------------------------------------------
(* Commands on snapshot files: a scraper run as a whole, --compute, --summary *)

\* another command runs: the locals of an earlier differ or summary are gone
ReaderLocalsGone ==
    old_data' = <<>> /\ new_data' = <<>> /\ drops' = <<>> /\ summary' = NoSummary

InitIdle ==
    /\ InitCommon
    /\ ParserIdle
    /\ pc = "idle"
    /\ urls = <<>>

\* A whole run of the scraper whose loop collected one record of I, saved to a
\* path of P (a file is let grow to MaxRows rows).
RunScraper(I, P) ==
    /\ pc = "idle"
    /\ \E out_path \in P, it \in I :
          /\ Len(files[out_path].rows) < MaxRows
          /\ all_items' = <<it>>
          /\ MainTail(<<it>>, out_path, NoWatch)
    /\ ReaderLocalsGone
    /\ UNCHANGED parse_vars
    /\ UNCHANGED <<pc, urls, url_i, attempt, slept, doc, scope_i, text_i, items,
                   seen_pairs, returned>>

\* main with --compute: recompute_csv(Path(args.save))
RecomputeCmd ==
    /\ pc = "idle"
    /\ \E input_path \in Paths :
          IF ~files[input_path].exists
          THEN /\ out' = CmdMissing("recompute", {"File not found"}, "", {})
               /\ UNCHANGED files
          ELSE IF files[input_path].rows = <<>>
          THEN \* rows[0] after the file was opened for writing
               /\ out' = Cmd("recompute", {}, "IndexError", {input_path})
               /\ UNCHANGED files
          ELSE /\ files' = [files EXCEPT ![input_path].rows = recompute_rows(@)]
               /\ out' = Cmd("recompute", {"Recomputed derived fields"}, "", {input_path})
    /\ all_items' = <<>>
    /\ ReaderLocalsGone
    /\ UNCHANGED parse_vars
    /\ UNCHANGED <<pc, urls, url_i, attempt, slept, doc, scope_i, text_i, items,
                   seen_pairs, returned>>

\* the discounts list of summarize_csv: (pct, row) of every row whose pct is truthy
Discounts(rows) ==
    LET pcts == [i \in 1..Len(rows) |->
                    [pct |-> recompute_to_float(rows[i].discount_percent),
                     product_name |-> rows[i].product_name]]
    IN  SelectSeq(pcts, LAMBDA d : Truthy(d.pct))

\* sorted(discounts, key=lambda x: x[0], reverse=True): stable, equal keys keep
\* their order
RECURSIVE SortDesc(_)
SortDesc(ds) ==
    IF ds = <<>> THEN <<>>
    ELSE LET rest == SortDesc(Tail(ds))
             k    == Cardinality({i \in 1..Len(rest) : rest[i].pct > ds[1].pct})
         IN  SubSeq(rest, 1, k) \o <<ds[1]>> \o SubSeq(rest, k + 1, Len(rest))

RECURSIVE SumPct(_)
SumPct(ds) == IF ds = <<>> THEN 0 ELSE ds[1].pct + SumPct(Tail(ds))

\* the percentage below which --flag-high does not flag, in hundredths
FlagThreshold == 6000

\* the statistics summarize_csv prints for the discounts ds (a percentage is kept in
\* hundredths, and printed with one fraction digit)
Summarize(rows, top_n, flag_high) ==
    LET ds == Discounts(rows)
    IN  IF ds = <<>> THEN [total |-> Len(rows), count |-> 0]
        ELSE [total   |-> Len(rows),
              count   |-> Len(ds),
              avg     |-> RoundDiv(SumPct(ds), 10 * Len(ds)),
              hi      |-> SortDesc(ds)[1].pct,
              lo      |-> SortDesc(ds)[Len(ds)].pct,
              top     |-> FirstChars(SortDesc(ds), top_n),
              flagged |-> IF flag_high
                          THEN SelectSeq(ds, LAMBDA d : d.pct >= FlagThreshold)
                          ELSE <<>>]

\* the --top values tried
TopNs == {1, 10}

\* main with --summary: summarize_csv(Path(args.save), top_n, flag_high)
SummarizeCmd ==
    /\ pc = "idle"
    /\ \E input_path \in Paths, top_n \in TopNs, flag_high \in BOOLEAN :
          IF ~files[input_path].exists
          THEN /\ out' = CmdMissing("summary", {"File not found"}, "", {})
               /\ summary' = NoSummary
          ELSE IF files[input_path].rows = <<>>
          THEN /\ out' = Cmd("summary", {"No data found."}, "", {})
               /\ summary' = NoSummary
          ELSE /\ summary' = Summarize(files[input_path].rows, top_n, flag_high)
               /\ out' = Cmd("summary",
                             IF summary'.count = 0
                             THEN {"Summary", "No discount data available."}
                             ELSE {"Summary"},
                             "", {})
    /\ all_items' = <<>>
    /\ old_data' = <<>> /\ new_data' = <<>> /\ drops' = <<>>
    /\ UNCHANGED parse_vars
    /\ UNCHANGED <<pc, urls, url_i, attempt, slept, doc, scope_i, text_i, items,
                   seen_pairs, returned, files>>

\* the records a scraper run may have collected, for the snapshot commands
H_Item(sale_price, instant_savings) ==
    MakeItem(W_Ham, sale_price, instant_savings, UrlOf(1))

CsvPrices ==
    {P_15, <<"$", "1", "2">>, P_0,
     <<"$", "9", "9", "9", ".", "9", "9">>}

CsvSavings == {<<>>, <<"5", ".", "0", "0">>, <<"5">>, <<"0", ".", "0", "1">>}

CsvItems == {H_Item(p, i) : p \in CsvPrices, i \in CsvSavings}

NextCsv ==
    \/ RunScraper(CsvItems, {"sales_new.csv"})
    \/ RecomputeCmd
    \/ SummarizeCmd

SpecCsv == InitIdle /\ [][NextCsv]_vars

-----------------------------------------------------------------------------
\* Properties of the snapshot files (checked under SpecCsv)

\* every row of every snapshot file
AllRows == UNION {{files[p].rows[i] : i \in 1..Len(files[p].rows)} : p \in Paths}

\* the rows the last command wrote: the record save_csv appended, or the rows
\* recompute_csv wrote back
SavedRows ==
    IF out.op = "scrape" /\ out.raised = ""
    THEN {files[p].rows[Len(files[p].rows)] : p \in out.wrote}
    ELSE {}

RecomputedRows ==
    IF out.op = "recompute" /\ out.raised = ""
    THEN UNION {{files[p].rows[i] : i \in 1..Len(files[p].rows)} : p \in out.wrote}
    ELSE {}

\* C3: in every row save_csv wrote and every row recompute_csv rewrote,
\* approx_regular_price is empty iff discount_percent is empty; the two are set
\* when the command's to_float gives a non-zero number for both sale_price and
\* instant_savings, and empty otherwise.
C3_DerivedFieldsTogether ==
    /\ \A r \in AllRows : (r.approx_regular_price = <<>>) <=> (r.discount_percent = <<>>)
    /\ \A r \in SavedRows :
          (r.discount_percent # <<>>) <=>
              (Truthy(save_to_float(r.sale_price)) /\ Truthy(save_to_float(r.instant_savings)))
    /\ \A r \in RecomputedRows :
          (r.discount_percent # <<>>) <=>
              (/\ Truthy(recompute_to_float(r.sale_price))
               /\ Truthy(recompute_to_float(r.instant_savings)))

\* recompute_csv has rewritten a file holding a row whose discount rounds to 0.0
\* (both fields set) and a row with both fields empty
C3_Witness ==
    /\ RecomputedRows # {}
    /\ \E r \in RecomputedRows :
          r.discount_percent = <<"0", ".", "0">> /\ r.approx_regular_price # <<>>
    /\ \E r \in RecomputedRows :
          r.discount_percent = <<>> /\ r.approx_regular_price = <<>>

\* C5: save_csv's to_float and recompute_csv's to_float give the same number, or
\* both none, for the sale_price and the instant_savings of every row, and the
\* derived fields save_csv wrote are those recompute_csv computes for the row.
C5_OneParsingPolicy ==
    \A r \in AllRows :
        /\ save_to_float(r.sale_price) = recompute_to_float(r.sale_price)
        /\ save_to_float(r.instant_savings) = recompute_to_float(r.instant_savings)
        /\ recompute_row(r) = r

\* the columns recompute_csv does not derive
NonDerived(r) ==
    [post_title      |-> r.post_title,
     post_date       |-> r.post_date,
     product_name    |-> r.product_name,
     sale_price      |-> r.sale_price,
     regular_price   |-> r.regular_price,
     instant_savings |-> r.instant_savings,
     source_url      |-> r.source_url,
     scraped_at      |-> r.scraped_at]

\* C6: every run of recompute_csv that rewrites a file leaves it with rows that
\* a second run would write back unchanged, with derived fields that depend on
\* sale_price and instant_savings alone, and with every non-derived column as it
\* was before the run.
C6_RecomputeIdempotent ==
    [][\A p \in Paths :
          (out'.op = "recompute" /\ out'.raised = "" /\ out'.wrote = {p}) =>
              /\ recompute_rows(files'[p].rows) = files'[p].rows
              /\ Len(files'[p].rows) = Len(files[p].rows)
              /\ \A i \in 1..Len(files[p].rows) :
                    /\ NonDerived(files'[p].rows[i]) = NonDerived(files[p].rows[i])
                    /\ files'[p].rows[i] =
                          recompute_row([files[p].rows[i] EXCEPT
                                            !.approx_regular_price = <<>>,
                                            !.discount_percent = <<>>])]_vars

\* recompute_csv has rewritten a file with a row whose derived fields are set
C6_Witness ==
    /\ out.op = "recompute"
    /\ \E r \in RecomputedRows : r.approx_regular_price # <<>> /\ r.discount_percent # <<>>

-----------------------------------------------------------------------------
(* The differ: price_diff_notifier.py                                       *)

\* key = (row["product_name"].strip().lower(), row["source_url"].strip())
DiffKey(row) == <<Lower(Strip(row.product_name)), Strip(row.source_url)>>

\* key in data
HasKey(data, key) == \E i \in 1..Len(data) : data[i].key = key

\* data[key]
Lookup(data, key) == data[CHOOSE i \in 1..Len(data) : data[i].key = key].row

\* a dict that keeps the first row of a key
DictPutKeepFirst(data, key, row) ==
    IF HasKey(data, key) THEN data ELSE Append(data, [key |-> key, row |-> row])

\* data[key] = row: a new key goes last, a known key keeps its place
DictPut(data, key, row) ==
    IF HasKey(data, key)
    THEN [i \in 1..Len(data) |->
             IF data[i].key = key THEN [key |-> key, row |-> row] ELSE data[i]]
    ELSE Append(data, [key |-> key, row |-> row])

\* load_csv(path) for the rows of the file: the dict, as the list of its entries
\* in insertion order
RECURSIVE load_csv(_)
load_csv(rows) ==
    IF rows = <<>> THEN <<>>
    ELSE LET row == rows[Len(rows)]
         IN  DictPut(load_csv(SubSeq(rows, 1, Len(rows) - 1)), DiffKey(row), row)

\* a comparison that also reports a price that did not change
IsDropNotStrict(old_price, new_price) ==
    Truthy(old_price) /\ Truthy(new_price) /\ new_price <= old_price

\* if old_price and new_price and new_price < old_price
IsDrop(old_price, new_price) ==
    Truthy(old_price) /\ Truthy(new_price) /\ new_price < old_price

\* whether compare looks at the prices of a key of the new snapshot
InOld(old, key) == HasKey(old, key)

\* the dict compare appends (prices are floats, here in hundredths;
\* round(old_price - new_price, 2) is their difference in hundredths)
MakeDrop(new_item, old_price, new_price) ==
    [product_name |-> new_item.product_name,
     old_price    |-> old_price,
     new_price    |-> new_price,
     drop_amount  |-> old_price - new_price,
     post_title   |-> new_item.post_title,
     post_date    |-> new_item.post_date,
     source_url   |-> new_item.source_url]

\* compare(old_data, new_data), over the first n entries of new_data
RECURSIVE CompareUpTo(_, _, _)
CompareUpTo(old, new, n) ==
    IF n = 0 THEN <<>>
    ELSE LET before    == CompareUpTo(old, new, n - 1)
             key       == new[n].key
             new_item  == new[n].row
             old_price == parse_price(Lookup(old, key).sale_price)
             new_price == parse_price(new_item.sale_price)
         IN  IF ~InOld(old, key) THEN before
             ELSE IF IsDrop(old_price, new_price)
                  THEN Append(before, MakeDrop(new_item, old_price, new_price))
                  ELSE before

compare(old, new) == CompareUpTo(old, new, Len(new))

\* the drop report written by save_drops
ReportPath == "price_drops.csv"

\* main of the differ.  With --old and --new the paths are as given; without, they
\* are the two newest snapshots (auto_find_sales_files): of the two paths of the
\* model, sales_old.csv is the one modified first.
DiffCmd ==
    /\ pc = "idle"
    /\ \E explicit \in BOOLEAN :
          LET old_path == "sales_old.csv"
              new_path == "sales_new.csv"
          IN
          IF ~explicit /\ Cardinality({p \in Paths : files[p].exists}) < 2
          THEN /\ out' = Cmd("diff", {"Need at least two sales_*.csv files"},
                             "SystemExit", {})
               /\ old_data' = <<>> /\ new_data' = <<>> /\ drops' = <<>>
          ELSE /\ IF ~files[old_path].exists
                  THEN \* open(path) in load_csv(old_path)
                       /\ out' = CmdMissing("diff", {"Comparing"}, "FileNotFoundError", {})
                       /\ old_data' = <<>> /\ new_data' = <<>> /\ drops' = <<>>
                  ELSE IF ~files[new_path].exists
                  THEN \* open(path) in load_csv(new_path)
                       /\ old_data' = load_csv(files[old_path].rows)
                       /\ out' = CmdMissing("diff", {"Comparing"}, "FileNotFoundError", {})
                       /\ new_data' = <<>> /\ drops' = <<>>
                  ELSE /\ old_data' = load_csv(files[old_path].rows)
                       /\ new_data' = load_csv(files[new_path].rows)
                       /\ drops' = compare(old_data', new_data')
                       /\ out' = IF drops' = <<>>
                                 THEN Cmd("diff", {"Comparing", "No price drops detected."},
                                          "", {})
                                 ELSE Cmd("diff", {"Comparing", "PRICE DROPS", "Saved"},
                                          "", {ReportPath})
    /\ all_items' = <<>>
    /\ summary' = NoSummary
    /\ UNCHANGED parse_vars
    /\ UNCHANGED <<pc, urls, url_i, attempt, slept, doc, scope_i, text_i, items,
                   seen_pairs, returned, files>>

\* the records of the snapshots the differ is run on
D_Item(name, sale_price) == MakeItem(name, sale_price, <<>>, UrlOf(1))

DiffItems ==
    {D_Item(W_Ham, P_20), D_Item(W_HAM, P_15), D_Item(W_Ham, P_0),
     D_Item(W_Tea, P_20), D_Item(W_Tea, P_5)}

NextDiff ==
    \/ RunScraper(DiffItems, Paths)
    \/ DiffCmd

SpecDiff == InitIdle /\ [][NextDiff]_vars

-----------------------------------------------------------------------------
\* Properties of the differ (checked under SpecDiff)

\* the differ has loaded both snapshots and compared them
Compared == out.op = "diff" /\ out.raised = ""

\* the price of key in a loaded snapshot, as the differ parses it
PriceIn(data, key) == parse_price(Lookup(data, key).sale_price)

\* some drop of the report is for key
HasDrop(key) == \E d \in 1..Len(drops) : DiffKey(drops[d]) = key

\* C1: for every key present in both snapshots whose numeric sale price is
\* strictly lower in the new snapshot than in the old one, compare emits a drop,
\* also when one of the two prices parses to 0.
C1_EveryDecreaseIsReported ==
    Compared =>
        \A i \in 1..Len(new_data) :
            LET key == new_data[i].key
            IN  (/\ HasKey(old_data, key)
                 /\ PriceIn(old_data, key) # NoValue
                 /\ PriceIn(new_data, key) # NoValue
                 /\ PriceIn(new_data, key) < PriceIn(old_data, key))
                => HasDrop(key)

\* C2: every drop is for a key present in both snapshots, carries the prices
\* parsed from the two snapshots with new_price < old_price, and its drop_amount
\* is old_price - new_price, a positive amount; so a key of one snapshot only, or
\* one whose price is equal or higher, has no drop.
C2_EveryDropIsADecrease ==
    Compared =>
        \A d \in 1..Len(drops) :
            LET key == DiffKey(drops[d])
            IN  /\ HasKey(old_data, key)
                /\ HasKey(new_data, key)
                /\ drops[d].old_price = PriceIn(old_data, key)
                /\ drops[d].new_price = PriceIn(new_data, key)
                /\ drops[d].new_price < drops[d].old_price
                /\ drops[d].drop_amount = drops[d].old_price - drops[d].new_price
                /\ drops[d].drop_amount > 0

\* C10: when an input file of a command is missing, the command reports it,
\* ends without raising and writes no output of its own (the differ's old or new
\* snapshot, the snapshot of recompute_csv or summarize_csv, the watchlist).
C10_MissingInputIsReported ==
    out.missing =>
        /\ "File not found" \in out.msgs
        /\ out.raised = ""
        /\ (out.op # "scrape" => out.wrote = {})

\* a comparison that reported a drop for one key of the new snapshot and none for
\* another
C2_Witness ==
    /\ Compared
    /\ drops # <<>>
    /\ \E i \in 1..Len(new_data) : ~HasDrop(new_data[i].key)

\* the place of a drop's key in the iteration order of the new snapshot
PlaceInNew(d) == CHOOSE k \in 1..Len(new_data) : new_data[k].key = DiffKey(d)

\* C12: the drops the differ prints and saves are in descending order of
\* drop_amount, and drops of equal drop_amount are in the order compare met
\* them in the new snapshot.
C12_DropsRankedByAmount ==
    Compared =>
        \A i, j \in 1..Len(drops) :
            i < j =>
                \/ drops[i].drop_amount > drops[j].drop_amount
                \/ /\ drops[i].drop_amount = drops[j].drop_amount
                   /\ PlaceInNew(drops[i]) < PlaceInNew(drops[j])

\* the snapshot files the differ read
OldRows == files["sales_old.csv"].rows
NewRows == files["sales_new.csv"].rows

\* the diff keys of the rows of a file, and the last row of a key
KeysOf(rows) == {DiffKey(rows[i]) : i \in 1..Len(rows)}

LastRowOf(rows, key) ==
    rows[CHOOSE i \in 1..Len(rows) :
            /\ DiffKey(rows[i]) = key
            /\ \A j \in (i + 1)..Len(rows) : DiffKey(rows[j]) # key]

\* data has one entry for each key of rows, holding the last row of the key
OneLastRowPerKey(data, rows) ==
    /\ {data[i].key : i \in 1..Len(data)} = KeysOf(rows)
    /\ Len(data) = Cardinality(KeysOf(rows))
    /\ \A i \in 1..Len(data) : data[i].row = LastRowOf(rows, data[i].key)

\* C15: each loaded snapshot has exactly one row per diff key, the last row of
\* the file with that key; every drop is computed from the last rows of its key
\* in the two files, and no two drops have the same key.
C15_LastRowPerKey ==
    Compared =>
        /\ OneLastRowPerKey(old_data, OldRows)
        /\ OneLastRowPerKey(new_data, NewRows)
        /\ \A d, e \in 1..Len(drops) : d # e => DiffKey(drops[d]) # DiffKey(drops[e])
        /\ \A d \in 1..Len(drops) :
              LET key == DiffKey(drops[d])
              IN  /\ drops[d].old_price = parse_price(LastRowOf(OldRows, key).sale_price)
                  /\ drops[d].new_price = parse_price(LastRowOf(NewRows, key).sale_price)
                  /\ drops[d].product_name = LastRowOf(NewRows, key).product_name

\* the new snapshot file has two rows of one key at different prices, and the
\* differ reported a drop for the key
C15_Witness ==
    /\ Compared
    /\ Len(NewRows) = 2
    /\ DiffKey(NewRows[1]) = DiffKey(NewRows[2])
    /\ NewRows[1].sale_price # NewRows[2].sale_price
    /\ \E d \in 1..Len(drops) : DiffKey(drops[d]) = DiffKey(NewRows[2])

-----------------------------------------------------------------------------
\* Properties of the summary (checked under SpecCsv, where the one snapshot file
\* is sales_new.csv)

\* summarize_csv has read the snapshot and printed its statistics
Summarized == out.op = "summary" /\ ~out.missing /\ NewRows # <<>>

\* the records of the snapshot with a non-empty discount_percent, each with its
\* percentage in hundredths
WithDiscount ==
    LET ds == SelectSeq(NewRows, LAMBDA r : r.discount_percent # <<>>)
    IN  [i \in 1..Len(ds) |->
            [pct          |-> ParseFloat(ds[i].discount_percent),
             product_name |-> ds[i].product_name]]

Smaller(a, b) == IF a < b THEN a ELSE b

\* C13: the statistics are over exactly the records with a non-empty
\* discount_percent, one of 0.0 included: their number is the count, the
\* average, highest and lowest are theirs, the top list is the first of them in
\* descending order of discount, and the flagged records, when flagging is on,
\* are those with a discount of 60 or more.
C13_SummaryOverAllDiscounts ==
    Summarized =>
        /\ summary.total = Len(NewRows)
        /\ summary.count = Len(WithDiscount)
        /\ summary.count > 0 =>
              /\ \E i \in 1..Len(WithDiscount) : WithDiscount[i].pct = summary.hi
              /\ \A i \in 1..Len(WithDiscount) : WithDiscount[i].pct <= summary.hi
              /\ \E i \in 1..Len(WithDiscount) : WithDiscount[i].pct = summary.lo
              /\ \A i \in 1..Len(WithDiscount) : WithDiscount[i].pct >= summary.lo
              /\ summary.avg = RoundDiv(SumPct(WithDiscount), 10 * Len(WithDiscount))
              /\ \E top_n \in TopNs :
                    summary.top = SubSeq(SortDesc(WithDiscount), 1,
                                         Smaller(top_n, Len(WithDiscount)))
              /\ summary.flagged \in
                    {<<>>, SelectSeq(WithDiscount, LAMBDA d : d.pct >= 6000)}

-----------------------------------------------------------------------------
(* The three price parsers, each called on a price string                   *)

\* n written with a "," before every group of three digits (n < 1000000)
WithThousands(n) ==
    IF n < 1000 THEN IntToDigits(n)
    ELSE LET low == n % 1000
         IN  IntToDigits(n \div 1000) \o
             <<",", Digits[(low \div 100) + 1], Digits[((low \div 10) % 10) + 1],
               Digits[(low % 10) + 1]>>

\* "$" and the amount of dollars and cents, as a price is written
PriceText(dollars, cents) ==
    <<"$">> \o WithThousands(dollars) \o
    <<".", Digits[(cents \div 10) + 1], Digits[(cents % 10) + 1]>>

\* the amounts tried
Dollars == {0, 7, 12, 345, 1234, 12345}
Cents == {0, 5, 34, 56, 99}

PriceStrings == {PriceText(d, c) : d \in Dollars, c \in Cents}

InitParse ==
    /\ InitCommon
    /\ pc = "parse"
    /\ urls = <<>>
    /\ price_in \in PriceStrings
    /\ parsed = NoParse

\* to_float(rr.get("sale_price")) in save_csv
ParseAtSave ==
    /\ pc = "parse"
    /\ parsed' = [by |-> "save_csv", value |-> save_to_float(price_in)]
    /\ UNCHANGED <<pc, scraper_vars, files, reader_vars, out, price_in>>

\* to_float(rr.get("sale_price")) in recompute_csv
ParseAtRecompute ==
    /\ pc = "parse"
    /\ parsed' = [by |-> "recompute_csv", value |-> recompute_to_float(price_in)]
    /\ UNCHANGED <<pc, scraper_vars, files, reader_vars, out, price_in>>

\* parse_price(new_item["sale_price"]) in compare
ParseInDiffer ==
    /\ pc = "parse"
    /\ parsed' = [by |-> "parse_price", value |-> parse_price(price_in)]
    /\ UNCHANGED <<pc, scraper_vars, files, reader_vars, out, price_in>>

NextParse ==
    \/ ParseAtSave
    \/ ParseAtRecompute
    \/ ParseInDiffer

SpecParse == InitParse /\ [][NextParse]_vars

\* the amount a price string stands for, in hundredths: its digits read as one
\* number
AmountOf(s) == DigitsToInt(SelectSeq(s, IsDigit))

\* C11: each of the three parsers, given a price string $d.dd or one with a
\* thousands separator ($d,ddd.dd), returns the amount the string stands for.
C11_ParsersRecoverAmount ==
    parsed.by # "none" => parsed.value = AmountOf(price_in)

====
